---- MODULE Spec2Model ----
(***************************************************************************)
(* State-machine model of src/services/geminiService.ts: the Indicator     *)
(* Extractor (extractIndicators) and the Fact Reconciler                   *)
(* (extractFactsFromFiles).                                                *)
(*                                                                         *)
(* Modelling conventions                                                   *)
(*  - A string field that the specification joins (factualValue with       *)
(*    newlines, evidenceSource and pageNumber with commas) is modelled as  *)
(*    the sequence of its joined parts: a one-line value "v" is <<"v">>.   *)
(*    String equality in the code is equality of these sequences.          *)
(*  - The Japanese literal for "not found" that the code compares with     *)
(*    (geminiService.ts line 190) is written Sentinel: the module text is  *)
(*    ASCII only.                                                          *)
(*  - The oracle (ai.models.generateContent) is a nondeterministic choice  *)
(*    of one of three outcomes per call: the promise rejects, the reply    *)
(*    text does not parse, or it parses to a list of records.              *)
(*  - Record fields the code only passes through (metricName, threshold,   *)
(*    description, title, id of a fact) are left out.                      *)
(***************************************************************************)
EXTENDS Naturals, Sequences, FiniteSets, TLC

VARIABLES
    agendaItems,    \* input: AgendaItem[] of both stages
    indVariant,     \* which definition of extractIndicators runs
    ind_pc,         \* position inside extractIndicators
    ind_k,          \* position of the for-of loop over agendaItems (1-based)
    allIndicators,  \* local allIndicators / the returned list
    producedBy,     \* history: for each element of allIndicators, the call that produced it
    indLog,         \* history: outcome of every generateContent call, in call order
    indCalls,       \* history: the request of every generateContent call, in call order
    indFailure,     \* why extractIndicators rejected ("none" while it has not)
    files,          \* input: File[] of extractFactsFromFiles
    indicators,     \* input: Indicator[] of extractFactsFromFiles
    f_pc,           \* position inside extractFactsFromFiles
    f_i,            \* loop variable i (0-based, as in the code)
    allFacts,       \* local allFacts
    finalMap,       \* local finalMap, in insertion order
    m_k,            \* position of allFacts.forEach (1-based, next element to merge)
    result,         \* the returned list
    progressLog,    \* history: the (current, total) pairs passed to onProgress
    calls,          \* history: the generateContent calls issued, in order
    factLog,        \* history: outcome of every generateContent call, in call order
    f_failure,      \* why extractFactsFromFiles rejected ("none" while it has not)
    currentStep,    \* store.currentStep
    noticeFile,     \* store.noticeFile (NoFile for null)
    guidelineFile,  \* store.guidelineFile (NoFile for null)
    evidenceFiles,  \* store.evidenceFiles
    pdfTextCache,   \* store.pdfTextCache: file name -> extracted text
    st_agendaItems, \* store.agendaItems
    st_indicators,  \* store.indicators
    st_facts,       \* store.facts
    st_decisions,   \* store.decisions
    isProcessing,   \* store.isProcessing
    error,          \* store.error ("null" for null)
    progress,       \* App's useState progress
    statusMessage,  \* App's useState statusMessage
    w_pc,           \* position of the stage handler in flight ("idle" when none is)
    w_snapCache,    \* store.pdfTextCache as the handler's closure sees it
    w_texts,        \* processStep3's textsToProcess
    w_current,      \* the number of onProgress calls processStep3's stage call has made
    w_outcome       \* history: the last stage handler that ended, and how its call ended

indVars == <<indVariant, ind_pc, ind_k, allIndicators, producedBy, indLog, indCalls,
            indFailure>>
factVars == <<files, indicators, f_pc, f_i, allFacts, finalMap, m_k, result,
              progressLog, calls, factLog, f_failure>>
storeVars == <<currentStep, noticeFile, guidelineFile, evidenceFiles, pdfTextCache,
              st_agendaItems, st_indicators, st_facts, st_decisions, isProcessing, error>>
handlerVars == <<progress, statusMessage, w_pc, w_snapCache, w_texts, w_current, w_outcome>>
wizVars == <<storeVars, handlerVars>>
svcVars == <<agendaItems, indVars, factVars>>
vars == <<agendaItems, indVars, factVars, wizVars>>

-----------------------------------------------------------------------------
(* Bounds of the model *)

\* most indicators the oracle returns over one run of extractIndicators
MaxIndicators == 2
\* most facts the oracle returns over one run of extractFactsFromFiles
MaxFacts == 3
\* most records one stage call of the wizard returns
MaxReturned == 1
\* most evidentiary files the user uploads
MaxEvidence == 1

-----------------------------------------------------------------------------
(* Data *)

Sentinel == "KISAI_NASHI"
SentinelText == <<Sentinel>>

Min(a, b) == IF a < b THEN a ELSE b

\* the agenda list 1, 2, 3 and its prefixes
AgendaList == << [id |-> "1"], [id |-> "2"], [id |-> "3"] >>
AgendaIds == {"1", "2", "3"}
IndicatorIds == {"ind-1", "ind-2"}

Prefixes(s) == { SubSeq(s, 1, n) : n \in 0..Len(s) }
SeqsUpTo(S, n) == UNION { [1..k -> S] : k \in 0..n }

\* what a parsed oracle reply to extractIndicators may hold: any id, any agendaId
IndicatorDomain == [id : IndicatorIds, agendaId : AgendaIds]

\* the documents: X has page markers 1..120, Y has none
DocX == [name |-> "X", pages |-> 120]
DocY == [name |-> "Y", pages |-> 0]
DocList == <<DocX, DocY>>

IndicatorList == << [id |-> "ind-1", agendaId |-> "1"], [id |-> "ind-2", agendaId |-> "2"] >>

\* the values a reply may report, and the page the oracle cites for each: the
\* sentinel and two real values; a reply's pageNumber goes with its value
FactValues == { SentinelText, <<"ROE 8.5%">>, <<"female directors 2">> }
PageOf(v) == IF v = <<"ROE 8.5%">> THEN <<"12">>
             ELSE IF v = <<"female directors 2">> THEN <<"40">> ELSE <<"-">>

\* what a parsed oracle reply for document d may hold: any indicatorId the
\* schema allows (known to the caller or not), any value, d's name as source
FactDomain(d) ==
    { [indicatorId |-> i, factualValue |-> v, evidenceSource |-> <<d.name>>,
       pageNumber |-> PageOf(v)] : i \in IndicatorIds, v \in FactValues }
AllFactDomain == UNION { FactDomain(DocList[n]) : n \in 1..Len(DocList) }

\* outcomes of one generateContent call
Rejected == [kind |-> "rejected", items |-> <<>>]
Unparseable == [kind |-> "unparseable", items |-> <<>>]
Parsed(items) == [kind |-> "parsed", items |-> items]

-----------------------------------------------------------------------------
(* extractIndicators, geminiService.ts lines 56-108 (one call per agenda     *)
(* item) and lines 299-333 (one call for the whole agenda list)              *)

\* JSON.parse(response.text) inside try/catch, lines 99-104: a reply that
\* parses is pushed onto allIndicators as it is, one that does not is skipped
ParseIndicators(all, reply) ==
    IF reply.kind = "parsed" THEN all \o reply.items ELSE all

\* const base64Data = await fileToBase64(file), line 57 / 300
IndReadFile ==
    /\ ind_pc = "start"
    /\ \/ /\ ind_pc' = IF indVariant = "perAgenda" THEN "loop" ELSE "single"
          /\ UNCHANGED indFailure
       \/ /\ ind_pc' = "failed"
          /\ indFailure' = "read"
    /\ UNCHANGED <<agendaItems, indVariant, ind_k, allIndicators, producedBy, indLog, indCalls,
                   factVars, wizVars>>

\* the request of lines 61-97 naming every agenda item of the list, the way
\* the prompt of line 301 does
IndRequest_WholeList(agenda) ==
    [guideline |-> "guideline", target |-> <<agenda>>, listed |-> agendaItems]

\* the request of lines 61-97: the guideline file and a prompt built from the
\* one agenda item (its id, number, title and description, lines 69-76)
IndRequest(agenda) ==
    [guideline |-> "guideline", target |-> <<agenda>>, listed |-> <<>>]

\* for (const agenda of agendaItems) { await generateContent(...) }, lines 60-97
IndCall ==
    /\ ind_pc = "loop"
    /\ ind_k <= Len(agendaItems)
    /\ indCalls' = Append(indCalls, IndRequest(agendaItems[ind_k]))
    /\ ind_pc' = "await"
    /\ UNCHANGED <<agendaItems, indVariant, ind_k, allIndicators, producedBy, indLog,
                   indFailure, factVars, wizVars>>

\* IndHandle without the try/catch around JSON.parse: a reply that does not
\* parse rejects the call
IndHandle_NoCatch(reply) ==
    /\ indLog' = Append(indLog, [agenda |-> agendaItems[ind_k].id, kind |-> reply.kind,
                                 items |-> reply.items])
    /\ IF reply.kind # "parsed"
       THEN /\ ind_pc' = "failed"
            /\ indFailure' = IF reply.kind = "rejected" THEN "transport" ELSE "parse"
            /\ UNCHANGED <<ind_k, allIndicators, producedBy>>
       ELSE /\ allIndicators' = ParseIndicators(allIndicators, reply)
            /\ producedBy' = producedBy \o
                   [n \in 1..(Len(allIndicators') - Len(allIndicators)) |-> agendaItems[ind_k].id]
            /\ ind_k' = ind_k + 1
            /\ ind_pc' = "loop"
            /\ UNCHANGED indFailure

\* the reply to the call for agendaItems[ind_k], lines 97-105
IndHandle(reply) ==
    /\ indLog' = Append(indLog, [agenda |-> agendaItems[ind_k].id, kind |-> reply.kind,
                                 items |-> reply.items])
    /\ IF reply.kind = "rejected"
       THEN /\ ind_pc' = "failed"
            /\ indFailure' = "transport"
            /\ UNCHANGED <<ind_k, allIndicators, producedBy>>
       ELSE /\ allIndicators' = ParseIndicators(allIndicators, reply)
            /\ producedBy' = producedBy \o
                   [n \in 1..(Len(allIndicators') - Len(allIndicators)) |-> agendaItems[ind_k].id]
            /\ ind_k' = ind_k + 1
            /\ ind_pc' = "loop"
            /\ UNCHANGED indFailure

IndReply ==
    /\ ind_pc = "await"
    /\ \E reply \in {Rejected, Unparseable} \cup
            { Parsed(s) : s \in SeqsUpTo(IndicatorDomain, MaxIndicators - Len(allIndicators)) } :
          IndHandle(reply)
    /\ UNCHANGED <<agendaItems, indVariant, indCalls, factVars, wizVars>>

\* return allIndicators, line 107
IndReturn ==
    /\ ind_pc = "loop"
    /\ ind_k > Len(agendaItems)
    /\ ind_pc' = "done"
    /\ UNCHANGED <<agendaItems, indVariant, ind_k, allIndicators, producedBy, indLog,
                   indCalls, indFailure, factVars, wizVars>>

\* lines 301-330: the single generateContent call over the whole agenda list
IndSingleCall ==
    /\ ind_pc = "single"
    /\ indCalls' = Append(indCalls, [guideline |-> "guideline", target |-> <<>>,
                                     listed |-> agendaItems])
    /\ ind_pc' = "awaitSingle"
    /\ UNCHANGED <<agendaItems, indVariant, ind_k, allIndicators, producedBy, indLog,
                   indFailure, factVars, wizVars>>

\* return JSON.parse(response.text), line 332: no try/catch
IndSingleHandle(reply) ==
    /\ indLog' = Append(indLog, [agenda |-> "all", kind |-> reply.kind, items |-> reply.items])
    /\ IF reply.kind = "parsed"
       THEN /\ allIndicators' = reply.items
            /\ producedBy' = [n \in 1..Len(reply.items) |-> "all"]
            /\ ind_pc' = "done"
            /\ UNCHANGED indFailure
       ELSE /\ ind_pc' = "failed"
            /\ indFailure' = IF reply.kind = "rejected" THEN "transport" ELSE "parse"
            /\ UNCHANGED <<allIndicators, producedBy>>

IndSingleReply ==
    /\ ind_pc = "awaitSingle"
    /\ \E reply \in {Rejected, Unparseable} \cup
            { Parsed(s) : s \in SeqsUpTo(IndicatorDomain, MaxIndicators) } :
          IndSingleHandle(reply)
    /\ UNCHANGED <<agendaItems, indVariant, ind_k, indCalls, factVars, wizVars>>

-----------------------------------------------------------------------------
(* extractFactsFromFiles, geminiService.ts lines 114-196 (and the same code  *)
(* again at lines 335-402)                                                   *)

\* finalMap.get(key) !== undefined
MapHas(map, key) == \E j \in 1..Len(map) : map[j].indicatorId = key
MapIndex(map, key) == CHOOSE j \in 1..Len(map) : map[j].indicatorId = key
MapGet(map, key) == map[MapIndex(map, key)]
\* finalMap.set(key, fact): a new key goes last, an old key keeps its place
MapSet(map, fact) ==
    IF MapHas(map, fact.indicatorId)
    THEN [map EXCEPT ![MapIndex(map, fact.indicatorId)] = fact]
    ELSE Append(map, fact)

\* MergeFact without the precedence of a real value over the sentinel: the
\* first result of an indicator is kept whatever comes later
MergeFact_KeepFirst(map, fact) ==
    IF ~MapHas(map, fact.indicatorId) THEN MapSet(map, fact) ELSE map

\* MergeFact appending a real value to an entry that holds a real value,
\* without looking whether the entry holds that value already
MergeFact_Append(map, fact) ==
    IF ~MapHas(map, fact.indicatorId)
    THEN MapSet(map, fact)
    ELSE LET e == MapGet(map, fact.indicatorId)
         IN  IF fact.factualValue = SentinelText THEN map
             ELSE IF e.factualValue = SentinelText THEN MapSet(map, fact)
             ELSE MapSet(map, [e EXCEPT !.factualValue = @ \o fact.factualValue,
                                        !.evidenceSource = @ \o fact.evidenceSource,
                                        !.pageNumber = @ \o fact.pageNumber])

\* MergeFact doing what the comment of line 189 says of two real values: the
\* latest one replaces the entry
MergeFact_LatestWins(map, fact) ==
    IF \/ ~MapHas(map, fact.indicatorId)
       \/ fact.factualValue # SentinelText
    THEN MapSet(map, fact)
    ELSE map

\* the body of allFacts.forEach, lines 186-193
MergeFact(map, fact) ==
    IF \/ ~MapHas(map, fact.indicatorId)
       \/ /\ MapGet(map, fact.indicatorId).factualValue = SentinelText
          /\ fact.factualValue # SentinelText
    THEN MapSet(map, fact)
    ELSE map

\* JSON.parse(response.text) inside try/catch, lines 176-181
ParseFacts(all, reply) ==
    IF reply.kind = "parsed" THEN all \o reply.items ELSE all

\* loop head, onProgress(i + 1, totalFiles) and the start of fileToBase64,
\* lines 129-133
FactsNextFile ==
    /\ f_pc = "loop"
    /\ f_i < Len(files)
    /\ progressLog' = Append(progressLog, <<f_i + 1, Len(files)>>)
    /\ f_pc' = "read"
    /\ UNCHANGED <<wizVars, agendaItems, indVars, files, indicators, f_i, allFacts, finalMap, m_k,
                   result, calls, factLog, f_failure>>

\* FactsReadFile not awaiting generateContent: the call is issued and the loop
\* goes on to the next file at once
FactsReadFile_NoAwait ==
    /\ f_pc = "read"
    /\ calls' = Append(calls, [doc |-> files[f_i + 1].name,
                               pages |-> 1..files[f_i + 1].pages])
    /\ f_i' = f_i + 1
    /\ f_pc' = "loop"
    /\ UNCHANGED <<wizVars, agendaItems, indVars, files, indicators, allFacts, finalMap, m_k,
                   result, progressLog, factLog, f_failure>>

\* fileToBase64 settles; on success generateContent is called with the whole
\* file, lines 133-174
FactsReadFile ==
    /\ f_pc = "read"
    /\ \/ /\ f_pc' = "await"
          /\ calls' = Append(calls, [doc |-> files[f_i + 1].name,
                                     pages |-> 1..files[f_i + 1].pages])
          /\ UNCHANGED f_failure
       \/ /\ f_pc' = "failed"
          /\ f_failure' = "read"
          /\ UNCHANGED calls
    /\ UNCHANGED <<wizVars, agendaItems, indVars, files, indicators, f_i, allFacts, finalMap, m_k,
                   result, progressLog, factLog>>

\* FactsHandle without the try/catch around JSON.parse: a reply that does not
\* parse rejects the call
FactsHandle_NoCatch(reply) ==
    /\ factLog' = Append(factLog, [doc |-> files[f_i + 1].name, kind |-> reply.kind,
                                   items |-> reply.items])
    /\ IF reply.kind # "parsed"
       THEN /\ f_pc' = "failed"
            /\ f_failure' = IF reply.kind = "rejected" THEN "transport" ELSE "parse"
            /\ UNCHANGED <<f_i, allFacts>>
       ELSE /\ allFacts' = ParseFacts(allFacts, reply)
            /\ f_i' = f_i + 1
            /\ f_pc' = "loop"
            /\ UNCHANGED f_failure

\* the reply to the call for files[i], lines 174-182
FactsHandle(reply) ==
    /\ factLog' = Append(factLog, [doc |-> files[f_i + 1].name, kind |-> reply.kind,
                                   items |-> reply.items])
    /\ IF reply.kind = "rejected"
       THEN /\ f_pc' = "failed"
            /\ f_failure' = "transport"
            /\ UNCHANGED <<f_i, allFacts>>
       ELSE /\ allFacts' = ParseFacts(allFacts, reply)
            /\ f_i' = f_i + 1
            /\ f_pc' = "loop"
            /\ UNCHANGED f_failure

FactsReply ==
    /\ f_pc = "await"
    /\ \E reply \in {Rejected, Unparseable} \cup
            { Parsed(s) : s \in SeqsUpTo(FactDomain(files[f_i + 1]), MaxFacts - Len(allFacts)) } :
          FactsHandle(reply)
    /\ UNCHANGED <<wizVars, agendaItems, indVars, files, indicators, finalMap, m_k, result,
                   progressLog, calls>>

\* the loop ends; const finalMap = new Map(), line 185
FactsStartMerge ==
    /\ f_pc = "loop"
    /\ f_i >= Len(files)
    /\ f_pc' = "merge"
    /\ UNCHANGED <<wizVars, agendaItems, indVars, files, indicators, f_i, allFacts, finalMap, m_k,
                   result, progressLog, calls, factLog, f_failure>>

\* one element of allFacts.forEach, lines 186-193
MergeStep ==
    /\ f_pc = "merge"
    /\ m_k <= Len(allFacts)
    /\ finalMap' = MergeFact(finalMap, allFacts[m_k])
    /\ m_k' = m_k + 1
    /\ UNCHANGED <<wizVars, agendaItems, indVars, files, indicators, f_pc, f_i, allFacts, result,
                   progressLog, calls, factLog, f_failure>>

\* return Array.from(finalMap.values()), line 195
FactsReturn ==
    /\ f_pc = "merge"
    /\ m_k > Len(allFacts)
    /\ result' = finalMap
    /\ f_pc' = "done"
    /\ UNCHANGED <<wizVars, agendaItems, indVars, files, indicators, f_i, allFacts, finalMap, m_k,
                   progressLog, calls, factLog, f_failure>>

-----------------------------------------------------------------------------
(* The wizard: App of src/components/Stepper.tsx (lines 65-653) over the     *)
(* store of src/types.ts (lines 81-118).                                     *)
(*                                                                           *)
(* While store.isProcessing is true the loading overlay (lines 623-647)      *)
(* covers the page, so the buttons and file inputs act only when it is       *)
(* false. A stage handler reads the store through the closure of the render  *)
(* it was created in; since nothing else writes the store while it runs,     *)
(* only pdfTextCache, which the handler itself writes, is kept as a snapshot.*)
(* The snapshot and the handler's local variables are dropped when the       *)
(* handler ends.                                                             *)
(* The stage calls of processStep2 and processStep3 are modelled by what the *)
(* service function can return for its arguments or by its rejection; the    *)
(* handler imports the Fact Reconciler under the name extractFactsFromTexts. *)

NOTICE_ANALYSIS == 0
GUIDELINE_INDICATORS == 1
DATA_EXTRACTION == 2
FINAL_DECISION == 3
EXPORT == 4

NoFile == [name |-> "null", content |-> "null"]
NoticeDoc == [name |-> "N", content |-> "notice text"]
GuidelineDoc == [name |-> "G", content |-> "guideline text"]
EvidenceDoc == [name |-> "E", content |-> "evidence text"]
\* another document, whose file bears the name of the notice file
EvidenceNamedN == [name |-> "N", content |-> "other evidence text"]
\* the files the user may pick as evidence
EvidenceUploads == { EvidenceDoc, EvidenceNamedN }

\* the messages of lines 98, 115, 153 and 170
Step1Error == "notice analysis failed"
Step2Error == "guideline extraction failed"
Step3Error == "fact extraction failed"
Step4Error == "final decision failed"

\* what the oracle replies of the wizard's stage calls may hold
WizAgendaDomain == { AgendaList[1], AgendaList[2] }
WizIndicatorDomain == { i \in IndicatorDomain : i.id = "ind-1" /\ i.agendaId \in {"1", "2"} }
WizFactDomain(d) == { f \in FactDomain(d) : f.factualValue = <<"ROE 8.5%">> }
DecisionDomain == [agendaId : {"1", "2"}]

NoOutcome == [stage |-> "none", kind |-> "none"]

\* pdfTextCache: {} of line 86
EmptyCache == [n \in {} |-> ""]
\* if (store.pdfTextCache[file.name]), line 71: an empty text is no hit
CacheHit(cache, file) == file.name \in DOMAIN cache /\ cache[file.name] # ""
\* setPdfTextCache, types.ts lines 106-108
CachePut(cache, name, text) ==
    [n \in DOMAIN cache \cup {name} |-> IF n = name THEN text ELSE cache[n]]

\* extractTextFromPdf: the page-tagged text of the document (it may also fail)
ExtractTextFromPdf(file) == file.content

\* getCachedText, lines 70-77: the outcomes of one call, each with the cache
\* it leaves in the store
GetCachedText(file) ==
    IF CacheHit(w_snapCache, file)
    THEN { [ok |-> TRUE, text |-> w_snapCache[file.name], cache |-> pdfTextCache] }
    ELSE { [ok |-> TRUE, text |-> ExtractTextFromPdf(file),
            cache |-> CachePut(pdfTextCache, file.name, ExtractTextFromPdf(file))],
           [ok |-> FALSE, text |-> "", cache |-> pdfTextCache] }

\* analyzeNotice answering a reply that does not parse with an empty list
analyzeNotice_EmptyOnError(reply) ==
    IF reply.kind = "rejected" THEN [ok |-> FALSE, value |-> <<>>]
    ELSE [ok |-> TRUE, value |-> reply.items]

\* analyzeNotice, geminiService.ts lines 19-50: return JSON.parse(response.text)
analyzeNotice(reply) ==
    IF reply.kind = "parsed" THEN [ok |-> TRUE, value |-> reply.items]
    ELSE [ok |-> FALSE, value |-> <<>>]

\* generateFinalDecision answering a reply that does not parse with an empty list
generateFinalDecision_EmptyOnError(reply) ==
    IF reply.kind = "rejected" THEN [ok |-> FALSE, value |-> <<>>]
    ELSE [ok |-> TRUE, value |-> reply.items]

\* generateFinalDecision, geminiService.ts lines 198-246:
\* return JSON.parse(response.text)
generateFinalDecision(reply) ==
    IF reply.kind = "parsed" THEN [ok |-> TRUE, value |-> reply.items]
    ELSE [ok |-> FALSE, value |-> <<>>]

\* extractIndicators seen from its caller: it rejects, or returns the
\* concatenation of the parsed replies, one call per agenda item
ExtractIndicatorsOutcomes(items) ==
    {[ok |-> FALSE, value |-> <<>>]} \cup
    { [ok |-> TRUE, value |-> v] :
        v \in IF items = <<>> THEN {<<>>} ELSE SeqsUpTo(WizIndicatorDomain, MaxReturned) }

\* extractFactsFromFiles seen from its caller: what it returns is a list of
\* reported facts with pairwise different indicatorId, one document's facts
\* naming that document
ExtractFactsReturns(texts) ==
    { v \in SeqsUpTo(UNION { WizFactDomain(texts[n]) : n \in 1..Len(texts) }, MaxReturned) :
        \A a, b \in 1..Len(v) : a # b => v[a].indicatorId # v[b].indicatorId }

\* Math.round((current / total) * 100), line 145
RoundPercent(current, total) == (200 * current + total) \div (2 * total)

\* filesToProcess, line 130
FilesToProcess ==
    IF noticeFile # NoFile THEN <<noticeFile>> \o evidenceFiles ELSE evidenceFiles

\* handleFileChange(e, 'notice'), lines 79-83, with the input of lines 263-269
UploadNotice ==
    /\ ~isProcessing
    /\ currentStep = NOTICE_ANALYSIS
    /\ noticeFile' = NoticeDoc
    /\ UNCHANGED <<svcVars, currentStep, guidelineFile, evidenceFiles, pdfTextCache,
                   st_agendaItems, st_indicators, st_facts, st_decisions, isProcessing,
                   error, handlerVars>>

\* handleFileChange(e, 'guideline'), lines 79-84, with the input of line 340
UploadGuideline ==
    /\ ~isProcessing
    /\ currentStep = GUIDELINE_INDICATORS
    /\ guidelineFile' = GuidelineDoc
    /\ UNCHANGED <<svcVars, currentStep, noticeFile, evidenceFiles, pdfTextCache,
                   st_agendaItems, st_indicators, st_facts, st_decisions, isProcessing,
                   error, handlerVars>>

\* handleFileChange(e, 'evidence'), lines 79-85, with the input of line 426,
\* and addEvidenceFiles, types.ts line 101
AddEvidence ==
    /\ ~isProcessing
    /\ currentStep = DATA_EXTRACTION
    /\ Len(evidenceFiles) < MaxEvidence
    /\ \E f \in EvidenceUploads : evidenceFiles' = evidenceFiles \o <<f>>
    /\ UNCHANGED <<svcVars, currentStep, noticeFile, guidelineFile, pdfTextCache,
                   st_agendaItems, st_indicators, st_facts, st_decisions, isProcessing,
                   error, handlerVars>>

\* removeEvidenceFile(idx), line 443 and types.ts lines 102-104
RemoveEvidence ==
    /\ ~isProcessing
    /\ currentStep = DATA_EXTRACTION
    /\ \E idx \in 1..Len(evidenceFiles) :
          evidenceFiles' = SubSeq(evidenceFiles, 1, idx - 1) \o
                           SubSeq(evidenceFiles, idx + 1, Len(evidenceFiles))
    /\ UNCHANGED <<svcVars, currentStep, noticeFile, guidelineFile, pdfTextCache,
                   st_agendaItems, st_indicators, st_facts, st_decisions, isProcessing,
                   error, handlerVars>>

\* the back buttons of lines 355, 474 and 551: store.setStep(the step before)
Back ==
    /\ ~isProcessing
    /\ currentStep \in {GUIDELINE_INDICATORS, DATA_EXTRACTION, FINAL_DECISION}
    /\ currentStep' = currentStep - 1
    /\ UNCHANGED <<svcVars, noticeFile, guidelineFile, evidenceFiles, pdfTextCache,
                   st_agendaItems, st_indicators, st_facts, st_decisions, isProcessing,
                   error, handlerVars>>

\* store.reset(), line 608 and types.ts line 117
Reset ==
    /\ ~isProcessing
    /\ currentStep = EXPORT
    /\ currentStep' = NOTICE_ANALYSIS
    /\ noticeFile' = NoFile
    /\ guidelineFile' = NoFile
    /\ evidenceFiles' = <<>>
    /\ pdfTextCache' = EmptyCache
    /\ st_agendaItems' = <<>>
    /\ st_indicators' = <<>>
    /\ st_facts' = <<>>
    /\ st_decisions' = <<>>
    /\ isProcessing' = FALSE
    /\ error' = "null"
    /\ UNCHANGED <<svcVars, handlerVars>>

\* processStep1 started from a button that isProcessing does not disable and
\* the overlay does not cover
Step1Start_NotDisabled ==
    /\ currentStep = NOTICE_ANALYSIS
    /\ noticeFile # NoFile
    /\ isProcessing' = TRUE
    /\ error' = "null"
    /\ w_pc' = "s1_text"
    /\ w_snapCache' = pdfTextCache
    /\ UNCHANGED <<svcVars, currentStep, noticeFile, guidelineFile, evidenceFiles,
                   pdfTextCache, st_agendaItems, st_indicators, st_facts, st_decisions,
                   progress, statusMessage, w_texts, w_current, w_outcome>>

\* processStep1 up to its first await, lines 88-93
Step1Start ==
    /\ ~isProcessing
    /\ currentStep = NOTICE_ANALYSIS
    /\ noticeFile # NoFile
    /\ isProcessing' = TRUE
    /\ error' = "null"
    /\ w_pc' = "s1_text"
    /\ w_snapCache' = pdfTextCache
    /\ UNCHANGED <<svcVars, currentStep, noticeFile, guidelineFile, evidenceFiles,
                   pdfTextCache, st_agendaItems, st_indicators, st_facts, st_decisions,
                   progress, statusMessage, w_texts, w_current, w_outcome>>

\* getCachedText(store.noticeFile) settles, lines 93-94 (or 97-101)
Step1Text ==
    /\ w_pc = "s1_text"
    /\ \E o \in GetCachedText(noticeFile) :
          /\ pdfTextCache' = o.cache
          /\ IF o.ok
             THEN /\ w_pc' = "s1_call"
                  /\ UNCHANGED <<isProcessing, error, w_snapCache, w_outcome>>
             ELSE /\ error' = Step1Error
                  /\ isProcessing' = FALSE
                  /\ w_pc' = "idle"
                  /\ w_snapCache' = EmptyCache
                  /\ w_outcome' = [stage |-> "s1", kind |-> "unreadable"]
    /\ UNCHANGED <<svcVars, currentStep, noticeFile, guidelineFile, evidenceFiles,
                   st_agendaItems, st_indicators, st_facts, st_decisions,
                   progress, statusMessage, w_texts, w_current>>

\* processStep1 releasing isProcessing at the end of the try block instead
\* of in a finally block
Step1Reply_NoFinally ==
    /\ w_pc = "s1_call"
    /\ \E reply \in {Rejected, Unparseable} \cup
            { Parsed(v) : v \in SeqsUpTo(WizAgendaDomain, MaxReturned) } :
          /\ IF analyzeNotice(reply).ok
             THEN /\ st_agendaItems' = analyzeNotice(reply).value
                  /\ currentStep' = GUIDELINE_INDICATORS
                  /\ isProcessing' = FALSE
                  /\ UNCHANGED error
             ELSE /\ error' = Step1Error
                  /\ UNCHANGED <<st_agendaItems, currentStep, isProcessing>>
          /\ w_outcome' = [stage |-> "s1", kind |-> reply.kind]
    /\ w_pc' = "idle"
    /\ w_snapCache' = EmptyCache
    /\ UNCHANGED <<svcVars, noticeFile, guidelineFile, evidenceFiles, pdfTextCache,
                   st_indicators, st_facts, st_decisions,
                   progress, statusMessage, w_texts, w_current>>

\* analyzeNotice settles, lines 94-102
Step1Reply ==
    /\ w_pc = "s1_call"
    /\ \E reply \in {Rejected, Unparseable} \cup
            { Parsed(v) : v \in SeqsUpTo(WizAgendaDomain, MaxReturned) } :
          /\ IF analyzeNotice(reply).ok
             THEN /\ st_agendaItems' = analyzeNotice(reply).value
                  /\ currentStep' = GUIDELINE_INDICATORS
                  /\ UNCHANGED error
             ELSE /\ error' = Step1Error
                  /\ UNCHANGED <<st_agendaItems, currentStep>>
          /\ w_outcome' = [stage |-> "s1", kind |-> reply.kind]
    /\ isProcessing' = FALSE
    /\ w_pc' = "idle"
    /\ w_snapCache' = EmptyCache
    /\ UNCHANGED <<svcVars, noticeFile, guidelineFile, evidenceFiles, pdfTextCache,
                   st_indicators, st_facts, st_decisions,
                   progress, statusMessage, w_texts, w_current>>

\* processStep2 up to its first await, lines 105-110
Step2Start ==
    /\ ~isProcessing
    /\ currentStep = GUIDELINE_INDICATORS
    /\ guidelineFile # NoFile
    /\ isProcessing' = TRUE
    /\ error' = "null"
    /\ w_pc' = "s2_text"
    /\ w_snapCache' = pdfTextCache
    /\ UNCHANGED <<svcVars, currentStep, noticeFile, guidelineFile, evidenceFiles,
                   pdfTextCache, st_agendaItems, st_indicators, st_facts, st_decisions,
                   progress, statusMessage, w_texts, w_current, w_outcome>>

\* getCachedText(store.guidelineFile) settles, lines 110-111 (or 114-118)
Step2Text ==
    /\ w_pc = "s2_text"
    /\ \E o \in GetCachedText(guidelineFile) :
          /\ pdfTextCache' = o.cache
          /\ IF o.ok
             THEN /\ w_pc' = "s2_call"
                  /\ UNCHANGED <<isProcessing, error, w_snapCache, w_outcome>>
             ELSE /\ error' = Step2Error
                  /\ isProcessing' = FALSE
                  /\ w_pc' = "idle"
                  /\ w_snapCache' = EmptyCache
                  /\ w_outcome' = [stage |-> "s2", kind |-> "unreadable"]
    /\ UNCHANGED <<svcVars, currentStep, noticeFile, guidelineFile, evidenceFiles,
                   st_agendaItems, st_indicators, st_facts, st_decisions,
                   progress, statusMessage, w_texts, w_current>>

\* extractIndicators(text, store.agendaItems) settles, lines 111-119
Step2Return ==
    /\ w_pc = "s2_call"
    /\ \E o \in ExtractIndicatorsOutcomes(st_agendaItems) :
          /\ IF o.ok
             THEN /\ st_indicators' = o.value
                  /\ currentStep' = DATA_EXTRACTION
                  /\ UNCHANGED error
             ELSE /\ error' = Step2Error
                  /\ UNCHANGED <<st_indicators, currentStep>>
          /\ w_outcome' = [stage |-> "s2", kind |-> IF o.ok THEN "returned" ELSE "rejected"]
    /\ isProcessing' = FALSE
    /\ w_pc' = "idle"
    /\ w_snapCache' = EmptyCache
    /\ UNCHANGED <<svcVars, noticeFile, guidelineFile, evidenceFiles, pdfTextCache,
                   st_agendaItems, st_facts, st_decisions,
                   progress, statusMessage, w_texts, w_current>>

\* processStep3 up to its first await, lines 122-136
Step3Start ==
    /\ ~isProcessing
    /\ currentStep = DATA_EXTRACTION
    /\ ~(evidenceFiles = <<>> /\ noticeFile = NoFile)
    /\ isProcessing' = TRUE
    /\ error' = "null"
    /\ progress' = 0
    /\ statusMessage' = <<"reading", FilesToProcess[1].name>>
    /\ w_pc' = "s3_text"
    /\ w_texts' = <<>>
    /\ w_current' = 0
    /\ w_snapCache' = pdfTextCache
    /\ UNCHANGED <<svcVars, currentStep, noticeFile, guidelineFile, evidenceFiles,
                   pdfTextCache, st_agendaItems, st_indicators, st_facts, st_decisions,
                   w_outcome>>

\* getCachedText(file) settles for the next file of the loop, lines 133-138
\* (or 152-158)
Step3Text ==
    /\ w_pc = "s3_text"
    /\ Len(w_texts) < Len(FilesToProcess)
    /\ LET file == FilesToProcess[Len(w_texts) + 1]
       IN  \E o \in GetCachedText(file) :
              /\ pdfTextCache' = o.cache
              /\ IF o.ok
                 THEN /\ w_texts' = Append(w_texts, [name |-> file.name, text |-> o.text])
                      /\ statusMessage' =
                            IF Len(w_texts') < Len(FilesToProcess)
                            THEN <<"reading", FilesToProcess[Len(w_texts') + 1].name>>
                            ELSE statusMessage
                      /\ UNCHANGED <<isProcessing, error, progress, w_pc, w_snapCache,
                                     w_current, w_outcome>>
                 ELSE /\ error' = Step3Error
                      /\ isProcessing' = FALSE
                      /\ progress' = 0
                      /\ statusMessage' = <<>>
                      /\ w_pc' = "idle"
                      /\ w_outcome' = [stage |-> "s3", kind |-> "unreadable"]
                      /\ w_snapCache' = EmptyCache
                      /\ w_texts' = <<>>
                      /\ w_current' = 0
    /\ UNCHANGED <<svcVars, currentStep, noticeFile, guidelineFile, evidenceFiles,
                   st_agendaItems, st_indicators, st_facts, st_decisions>>

\* the loop ends and the Fact Reconciler is called, lines 138-148
Step3Call ==
    /\ w_pc = "s3_text"
    /\ Len(w_texts) = Len(FilesToProcess)
    /\ w_pc' = "s3_call"
    /\ UNCHANGED <<svcVars, storeVars, progress, statusMessage, w_snapCache, w_texts,
                   w_current, w_outcome>>

\* the callback of lines 144-147, called with (i + 1, totalFiles) for the
\* next document (geminiService.ts line 131)
Step3Progress ==
    /\ w_pc = "s3_call"
    /\ w_current < Len(w_texts)
    /\ w_current' = w_current + 1
    /\ progress' = RoundPercent(w_current + 1, Len(w_texts))
    /\ UNCHANGED <<svcVars, storeVars, statusMessage, w_pc, w_snapCache, w_texts, w_outcome>>

\* processStep3 with setStep(FINAL_DECISION) in the finally block
Step3Return_AdvanceAlways ==
    /\ w_pc = "s3_call"
    /\ \/ /\ w_current = Len(w_texts)
          /\ \E v \in ExtractFactsReturns(w_texts) : st_facts' = v
          /\ w_outcome' = [stage |-> "s3", kind |-> "returned"]
          /\ UNCHANGED error
       \/ /\ w_current >= 1
          /\ error' = Step3Error
          /\ w_outcome' = [stage |-> "s3", kind |-> "rejected"]
          /\ UNCHANGED st_facts
    /\ currentStep' = FINAL_DECISION
    /\ isProcessing' = FALSE
    /\ progress' = 0
    /\ statusMessage' = <<>>
    /\ w_pc' = "idle"
    /\ w_snapCache' = EmptyCache
    /\ w_texts' = <<>>
    /\ w_current' = 0
    /\ UNCHANGED <<svcVars, noticeFile, guidelineFile, evidenceFiles, pdfTextCache,
                   st_agendaItems, st_indicators, st_decisions>>

\* the Fact Reconciler settles, lines 148-159: it returns after the last
\* document, or rejects at a document it has reported
Step3Return ==
    /\ w_pc = "s3_call"
    /\ \/ /\ w_current = Len(w_texts)
          /\ \E v \in ExtractFactsReturns(w_texts) : st_facts' = v
          /\ currentStep' = FINAL_DECISION
          /\ w_outcome' = [stage |-> "s3", kind |-> "returned"]
          /\ UNCHANGED error
       \/ /\ w_current >= 1
          /\ error' = Step3Error
          /\ w_outcome' = [stage |-> "s3", kind |-> "rejected"]
          /\ UNCHANGED <<st_facts, currentStep>>
    /\ isProcessing' = FALSE
    /\ progress' = 0
    /\ statusMessage' = <<>>
    /\ w_pc' = "idle"
    /\ w_snapCache' = EmptyCache
    /\ w_texts' = <<>>
    /\ w_current' = 0
    /\ UNCHANGED <<svcVars, noticeFile, guidelineFile, evidenceFiles, pdfTextCache,
                   st_agendaItems, st_indicators, st_decisions>>

\* processStep4 up to its await, lines 162-166
Step4Start ==
    /\ ~isProcessing
    /\ currentStep = FINAL_DECISION
    /\ isProcessing' = TRUE
    /\ error' = "null"
    /\ w_pc' = "s4_call"
    /\ UNCHANGED <<svcVars, currentStep, noticeFile, guidelineFile, evidenceFiles,
                   pdfTextCache, st_agendaItems, st_indicators, st_facts, st_decisions,
                   progress, statusMessage, w_snapCache, w_texts, w_current, w_outcome>>

\* generateFinalDecision settles, lines 166-174
Step4Reply ==
    /\ w_pc = "s4_call"
    /\ \E reply \in {Rejected, Unparseable} \cup
            { Parsed(v) : v \in SeqsUpTo(DecisionDomain, MaxReturned) } :
          /\ IF generateFinalDecision(reply).ok
             THEN /\ st_decisions' = generateFinalDecision(reply).value
                  /\ currentStep' = EXPORT
                  /\ UNCHANGED error
             ELSE /\ error' = Step4Error
                  /\ UNCHANGED <<st_decisions, currentStep>>
          /\ w_outcome' = [stage |-> "s4", kind |-> reply.kind]
    /\ isProcessing' = FALSE
    /\ w_pc' = "idle"
    /\ UNCHANGED <<svcVars, noticeFile, guidelineFile, evidenceFiles, pdfTextCache,
                   st_agendaItems, st_indicators, st_facts,
                   progress, statusMessage, w_snapCache, w_texts, w_current>>

-----------------------------------------------------------------------------
(* Specifications *)

\* initialState, types.ts lines 81-93, and the useState of lines 67-68
WizardInitial ==
    /\ currentStep = NOTICE_ANALYSIS
    /\ noticeFile = NoFile
    /\ guidelineFile = NoFile
    /\ evidenceFiles = <<>>
    /\ pdfTextCache = EmptyCache
    /\ st_agendaItems = <<>>
    /\ st_indicators = <<>>
    /\ st_facts = <<>>
    /\ st_decisions = <<>>
    /\ isProcessing = FALSE
    /\ error = "null"
    /\ progress = 0
    /\ statusMessage = <<>>
    /\ w_pc = "idle"
    /\ w_snapCache = EmptyCache
    /\ w_texts = <<>>
    /\ w_current = 0
    /\ w_outcome = NoOutcome

IndIdle ==
    /\ indVariant = "perAgenda"
    /\ ind_pc = "idle"
    /\ ind_k = 1
    /\ allIndicators = <<>>
    /\ producedBy = <<>>
    /\ indLog = <<>>
    /\ indCalls = <<>>
    /\ indFailure = "none"

FactsIdle ==
    /\ files = <<>>
    /\ indicators = <<>>
    /\ f_pc = "idle"
    /\ f_i = 0
    /\ allFacts = <<>>
    /\ finalMap = <<>>
    /\ m_k = 1
    /\ result = <<>>
    /\ progressLog = <<>>
    /\ calls = <<>>
    /\ factLog = <<>>
    /\ f_failure = "none"

\* a call extractIndicators(file, agendaItems)
InitIndicators ==
    /\ agendaItems \in Prefixes(AgendaList)
    /\ indVariant \in {"perAgenda", "single"}
    /\ ind_pc = "start"
    /\ ind_k = 1
    /\ allIndicators = <<>>
    /\ producedBy = <<>>
    /\ indLog = <<>>
    /\ indCalls = <<>>
    /\ indFailure = "none"
    /\ FactsIdle
    /\ WizardInitial

NextIndicators ==
    \/ IndReadFile
    \/ IndCall
    \/ IndReply
    \/ IndReturn
    \/ IndSingleCall
    \/ IndSingleReply

SpecIndicators == InitIndicators /\ [][NextIndicators]_vars

\* a call extractFactsFromFiles(files, agendaItems, indicators, onProgress)
InitFacts ==
    /\ agendaItems = AgendaList
    /\ IndIdle
    /\ files \in Prefixes(DocList)
    /\ indicators \in Prefixes(IndicatorList)
    /\ f_pc = "loop"
    /\ f_i = 0
    /\ allFacts = <<>>
    /\ finalMap = <<>>
    /\ m_k = 1
    /\ result = <<>>
    /\ progressLog = <<>>
    /\ calls = <<>>
    /\ factLog = <<>>
    /\ f_failure = "none"
    /\ WizardInitial

NextFacts ==
    \/ FactsNextFile
    \/ FactsReadFile
    \/ FactsReply
    \/ FactsStartMerge
    \/ MergeStep
    \/ FactsReturn

SpecFacts == InitFacts /\ [][NextFacts]_vars

\* the wizard from the first render on
InitWizard ==
    /\ agendaItems = <<>>
    /\ IndIdle
    /\ FactsIdle
    /\ WizardInitial

NextWizard ==
    \/ UploadNotice
    \/ UploadGuideline
    \/ AddEvidence
    \/ RemoveEvidence
    \/ Back
    \/ Reset
    \/ Step1Start
    \/ Step1Text
    \/ Step1Reply
    \/ Step2Start
    \/ Step2Text
    \/ Step2Return
    \/ Step3Start
    \/ Step3Text
    \/ Step3Call
    \/ Step3Progress
    \/ Step3Return
    \/ Step4Start
    \/ Step4Reply

SpecWizard == InitWizard /\ [][NextWizard]_vars

\* the continuations of a stage handler: each runs when the promise it awaits
\* settles
HandlerStep ==
    \/ Step1Text
    \/ Step1Reply
    \/ Step2Text
    \/ Step2Return
    \/ Step3Text
    \/ Step3Call
    \/ Step3Progress
    \/ Step3Return
    \/ Step4Reply

\* the wizard when every document read and every oracle call settles
SpecWizardFair == SpecWizard /\ WF_vars(HandlerStep)

-----------------------------------------------------------------------------
(* Properties *)

RECURSIVE KeptItems(_)
\* the items of the parsed replies of a call log, in call order
KeptItems(log) ==
    IF log = <<>> THEN <<>>
    ELSE (IF Head(log).kind = "parsed" THEN Head(log).items ELSE <<>>) \o KeptItems(Tail(log))

RECURSIVE KeptAgendas(_)
\* for each item of KeptItems(log), the agenda item of the call that returned it
KeptAgendas(log) ==
    IF log = <<>> THEN <<>>
    ELSE (IF Head(log).kind = "parsed"
          THEN [n \in 1..Len(Head(log).items) |-> Head(log).agenda] ELSE <<>>)
         \o KeptAgendas(Tail(log))

RECURSIVE MergeAll(_, _)
\* allFacts.forEach over a whole list
MergeAll(map, facts) ==
    IF facts = <<>> THEN map ELSE MergeAll(MergeFact(map, Head(facts)), Tail(facts))

\* part occurs in text as a run of joined parts
IsPartOf(part, text) ==
    \E n \in 1..Len(text) : n + Len(part) - 1 <= Len(text) /\ SubSeq(text, n, n + Len(part) - 1) = part

IsReal(fact) == fact.factualValue # SentinelText

\* C1: when extractFactsFromFiles returns, the returned list has exactly one
\* entry per input indicator: as many entries as indicators, and each
\* indicator id is the indicatorId of exactly one entry.
C1_OneFactPerIndicator ==
    f_pc = "done" =>
        /\ Len(result) = Len(indicators)
        /\ \A n \in 1..Len(indicators) :
              Cardinality({ j \in 1..Len(result) : result[j].indicatorId = indicators[n].id }) = 1

\* C2: when the per-agenda extractIndicators returns, every returned
\* indicator's agendaId is the id of the agenda item whose call produced it.
C2_AgendaIdOfCallingAgenda ==
    (ind_pc = "done" /\ indVariant = "perAgenda") =>
        \A n \in 1..Len(allIndicators) : allIndicators[n].agendaId = producedBy[n]

\* C3: when extractFactsFromFiles returns, for any two results for the same
\* indicator with different real values from different documents, the final
\* entry of that indicator holds both values and both sources.
C3_SecondRealValueAppended ==
    f_pc = "done" =>
        \A a, b \in 1..Len(allFacts) :
            (/\ a < b
             /\ allFacts[a].indicatorId = allFacts[b].indicatorId
             /\ IsReal(allFacts[a]) /\ IsReal(allFacts[b])
             /\ allFacts[a].factualValue # allFacts[b].factualValue
             /\ allFacts[a].evidenceSource # allFacts[b].evidenceSource)
            => LET e == MapGet(result, allFacts[a].indicatorId)
               IN  /\ IsPartOf(allFacts[a].factualValue, e.factualValue)
                   /\ IsPartOf(allFacts[b].factualValue, e.factualValue)
                   /\ IsPartOf(allFacts[a].evidenceSource, e.evidenceSource)
                   /\ IsPartOf(allFacts[b].evidenceSource, e.evidenceSource)

\* C4: a merge step that meets a real value for an indicator whose entry holds
\* the sentinel leaves that entry equal to the new result (value, source and
\* page), and adds no entry.
C4_SentinelReplaced ==
    [][ (/\ MergeStep
         /\ MapHas(finalMap, allFacts[m_k].indicatorId)
         /\ MapGet(finalMap, allFacts[m_k].indicatorId).factualValue = SentinelText
         /\ IsReal(allFacts[m_k]))
        => /\ MapGet(finalMap', allFacts[m_k].indicatorId) = allFacts[m_k]
           /\ Len(finalMap') = Len(finalMap) ]_vars

\* C4 witness: a sentinel from document X was replaced by a real value from Y
C4_Witness ==
    /\ f_pc = "merge" /\ m_k = 3
    /\ allFacts[1].indicatorId = allFacts[2].indicatorId
    /\ ~IsReal(allFacts[1]) /\ allFacts[1].evidenceSource = <<"X">>
    /\ IsReal(allFacts[2]) /\ allFacts[2].evidenceSource = <<"Y">>
    /\ finalMap = <<allFacts[2]>>

\* C5: in every state of the fact map, merging any result twice gives the
\* same map as merging it once.
C5_MergeIdempotent ==
    \A r \in AllFactDomain :
        MergeFact(MergeFact(finalMap, r), r) = MergeFact(finalMap, r)

\* C5 witness: the same real result was merged twice in a row into a map that
\* already held an entry, and the map holds it once
C5_Witness ==
    /\ f_pc = "merge" /\ m_k = 4
    /\ allFacts[2] = allFacts[3] /\ IsReal(allFacts[2])
    /\ allFacts[1].indicatorId # allFacts[2].indicatorId
    /\ finalMap = <<allFacts[1], allFacts[2]>>

\* C6: when extractFactsFromFiles returns and ind-1 is an input indicator that
\* no oracle reply mentioned, the returned list holds the sentinel entry for
\* ind-1, with source "-" and page "-".
C6_AbsentIndicatorGetsSentinel ==
    (/\ f_pc = "done"
     /\ \E n \in 1..Len(indicators) : indicators[n].id = "ind-1"
     /\ \A n \in 1..Len(factLog) : \A j \in 1..Len(factLog[n].items) :
            factLog[n].items[j].indicatorId # "ind-1")
    => \E j \in 1..Len(result) :
           result[j] = [indicatorId |-> "ind-1", factualValue |-> SentinelText,
                        evidenceSource |-> <<"-">>, pageNumber |-> <<"-">>]

C8_ParseFailureSkipsOneFile ==
    /\ f_pc = "failed" =>
          (f_failure = "read" \/ factLog[Len(factLog)].kind = "rejected")
    /\ f_pc \in {"loop", "read", "await", "merge", "done"} => allFacts = KeptItems(factLog)
    /\ f_pc \in {"merge", "done"} =>
          /\ Len(calls) = Len(files)
          /\ \A n \in 1..Len(files) : calls[n].doc = files[n].name
    /\ f_pc = "done" => result = MergeAll(<<>>, KeptItems(factLog))

\* C8 witness: the reply for the first file did not parse, the second file
\* was sent and its facts are in the returned list
C8_Witness ==
    /\ f_pc = "done" /\ files = DocList
    /\ factLog[1].kind = "unparseable"
    /\ factLog[2].kind = "parsed" /\ Len(factLog[2].items) = 2
    /\ result = MergeAll(<<>>, factLog[2].items) /\ result # <<>>

\* C9: a generateContent call that rejects does not fail the stage, neither
\* extractIndicators nor extractFactsFromFiles.
C9_TransportFailureSkipped ==
    /\ (\E n \in 1..Len(factLog) : factLog[n].kind = "rejected") => f_pc # "failed"
    /\ (\E n \in 1..Len(indLog) : indLog[n].kind = "rejected") => ind_pc # "failed"

\* the page ranges of a document of the given number of pages at a page budget
ChunkRanges(pages, budget) ==
    [n \in 1..((pages + budget - 1) \div budget) |->
        ((n - 1) * budget + 1)..Min(n * budget, pages)]

\* C10: when extractFactsFromFiles reaches the merge, the oracle calls made
\* for a document with page markers are its page ranges at a budget of 50
\* pages, in order (for 120 pages: 1-50, 51-100, 101-120), and a document
\* without page markers got exactly one call.
C10_OneCallPerPageChunk ==
    f_pc \in {"merge", "done"} =>
        \A d \in 1..Len(files) :
            LET mine == SelectSeq(calls, LAMBDA c : c.doc = files[d].name)
            IN  IF files[d].pages = 0
                THEN Len(mine) = 1
                ELSE [n \in 1..Len(mine) |-> mine[n].pages] = ChunkRanges(files[d].pages, 50)

RECURSIVE TotalChunks(_)
\* the number of page chunks of a list of documents at a budget of 50 pages,
\* a document without page markers counting as one chunk
TotalChunks(docs) ==
    IF docs = <<>> THEN 0
    ELSE (IF Head(docs).pages = 0 THEN 1 ELSE Len(ChunkRanges(Head(docs).pages, 50)))
         + TotalChunks(Tail(docs))

\* C11: onProgress is called once per chunk, before the chunk's oracle call,
\* with current = 1, 2, ... in order and total always the number of chunks of
\* all documents; a run that reaches the merge has reported every chunk.
C11_ProgressOncePerChunk ==
    /\ \A n \in 1..Len(progressLog) : progressLog[n] = <<n, TotalChunks(files)>>
    /\ Len(calls) <= Len(progressLog)
    /\ Len(progressLog) <= Len(calls) + 1
    /\ f_pc \in {"merge", "done"} => Len(progressLog) = TotalChunks(files)

\* C12: the fact map only ever holds results whose indicatorId is the id of an
\* input indicator and whose value is not the sentinel.
C12_OnlyKnownRealResultsStored ==
    \A j \in 1..Len(finalMap) :
        /\ \E n \in 1..Len(indicators) : indicators[n].id = finalMap[j].indicatorId
        /\ IsReal(finalMap[j])

\* C13: a reply to analyzeNotice that does not parse makes analyzeNotice
\* fail with no list; the processStep1 run that meets it leaves the stored
\* agendaItems as they were, leaves currentStep at NOTICE_ANALYSIS and sets
\* error to the message of stage 1.
C13_ParseFailureKeepsAgenda ==
    [][ (w_pc = "s1_call" /\ w_pc' = "idle" /\ w_outcome'.kind = "unparseable")
          => /\ ~analyzeNotice(Unparseable).ok
             /\ analyzeNotice(Unparseable).value = <<>>
             /\ st_agendaItems' = st_agendaItems
             /\ currentStep = NOTICE_ANALYSIS
             /\ currentStep' = NOTICE_ANALYSIS
             /\ error' = Step1Error ]_vars

\* C13 witness: after a first analysis stored an agenda list and the user went
\* back, a second analysis met an unparseable reply; the list is still stored
C13_Witness ==
    /\ w_outcome = [stage |-> "s1", kind |-> "unparseable"]
    /\ st_agendaItems # <<>>
    /\ currentStep = NOTICE_ANALYSIS
    /\ error = Step1Error
    /\ ~isProcessing

\* C14: a reply to generateFinalDecision that does not parse makes
\* generateFinalDecision fail with no decision; the processStep4 run that meets
\* it leaves the stored decisions as they were, leaves currentStep at
\* FINAL_DECISION and sets error to the message of stage 4.
C14_ParseFailureKeepsDecisions ==
    [][ (w_pc = "s4_call" /\ w_pc' = "idle" /\ w_outcome'.kind = "unparseable")
          => /\ ~generateFinalDecision(Unparseable).ok
             /\ generateFinalDecision(Unparseable).value = <<>>
             /\ st_decisions' = st_decisions
             /\ currentStep = FINAL_DECISION
             /\ currentStep' = FINAL_DECISION
             /\ error' = Step4Error ]_vars

\* C14 witness: with an agenda list, indicators and facts stored, the final
\* decision met an unparseable reply; no decision is stored
C14_Witness ==
    /\ w_outcome = [stage |-> "s4", kind |-> "unparseable"]
    /\ st_agendaItems # <<>>
    /\ st_decisions = <<>>
    /\ currentStep = FINAL_DECISION
    /\ error = Step4Error
    /\ ~isProcessing

\* C15: when generateFinalDecision has returned, the decisions hold exactly one
\* Decision for each agenda item it was given, and each Decision.agendaId is
\* the id of one of those agenda items.
C15_OneDecisionPerAgenda ==
    (w_outcome = [stage |-> "s4", kind |-> "parsed"] /\ currentStep = EXPORT)
        => /\ \A a \in 1..Len(st_agendaItems) :
                Cardinality({ d \in 1..Len(st_decisions) :
                                st_decisions[d].agendaId = st_agendaItems[a].id }) = 1
           /\ \A d \in 1..Len(st_decisions) :
                \E a \in 1..Len(st_agendaItems) :
                    st_decisions[d].agendaId = st_agendaItems[a].id

\* the plain-digit ordinal of position k
OrdinalId(k) == <<"1", "2", "3">>[k]

\* C16: when analyzeNotice has returned, the k-th agenda item of its list has
\* the id "k", so the ids are pairwise different.
C16_AgendaIdIsOrdinal ==
    (w_outcome = [stage |-> "s1", kind |-> "parsed"])
        => \A k \in 1..Len(st_agendaItems) : st_agendaItems[k].id = OrdinalId(k)

\* C17: when extractIndicators returns, no two elements of the returned list
\* have the same id.
C17_IndicatorIdsUnique ==
    ind_pc = "done" =>
        \A a, b \in 1..Len(allIndicators) :
            a # b => allIndicators[a].id # allIndicators[b].id

\* C18: at most one oracle call is outstanding, and only while the stage
\* awaits it; every earlier call has been answered and handled; the calls go
\* to the units in input order.
C18_OneCallAtATime ==
    /\ Len(calls) = Len(factLog) + (IF f_pc = "await" THEN 1 ELSE 0)
    /\ \A n \in 1..Len(calls) : calls[n].doc = files[n].name
    /\ \A n \in 1..Len(factLog) : factLog[n].doc = files[n].name
    /\ f_pc \in {"loop", "read", "await"} => Len(factLog) = f_i
    /\ Len(indCalls) = Len(indLog) + (IF ind_pc \in {"await", "awaitSingle"} THEN 1 ELSE 0)
    /\ indVariant = "perAgenda" =>
          /\ \A n \in 1..Len(indCalls) : indCalls[n].target = <<agendaItems[n]>>
          /\ \A n \in 1..Len(indLog) : indLog[n].agenda = agendaItems[n].id

\* C18 witness: the call for the second file is outstanding and the first
\* file's reply has been handled
C18_Witness ==
    /\ f_pc = "await" /\ f_i = 1
    /\ Len(calls) = 2 /\ Len(factLog) = 1
    /\ factLog[1].kind = "parsed" /\ allFacts = factLog[1].items /\ allFacts # <<>>

C21_LatestRealValueWins ==
    [][ (/\ MergeStep
         /\ MapHas(finalMap, allFacts[m_k].indicatorId)
         /\ IsReal(MapGet(finalMap, allFacts[m_k].indicatorId))
         /\ IsReal(allFacts[m_k]))
        => MapGet(finalMap', allFacts[m_k].indicatorId) = allFacts[m_k] ]_vars

\* C22: while processStep3 runs, the text getCachedText returned for each
\* file read so far is the text of that very document.
C22_CachedTextOfSameDocument ==
    w_pc \in {"s3_text", "s3_call"} =>
        \A k \in 1..Len(w_texts) :
            w_texts[k].text = ExtractTextFromPdf(FilesToProcess[k])

\* the ids of the stored agenda items and of the stored indicators
StoredAgendaIds == { st_agendaItems[k].id : k \in 1..Len(st_agendaItems) }
StoredIndicatorIds == { st_indicators[k].id : k \in 1..Len(st_indicators) }

\* C23: in every state of the wizard each stored Indicator.agendaId is the id
\* of a stored AgendaItem, each stored FactEvidence.indicatorId is the id of a
\* stored Indicator and each stored Decision.agendaId is the id of a stored
\* AgendaItem.
C23_StoreReferentiallyConsistent ==
    /\ \A k \in 1..Len(st_indicators) : st_indicators[k].agendaId \in StoredAgendaIds
    /\ \A k \in 1..Len(st_facts) : st_facts[k].indicatorId \in StoredIndicatorIds
    /\ \A k \in 1..Len(st_decisions) : st_decisions[k].agendaId \in StoredAgendaIds

\* C24: a stage handler starts only when no stage handler is in flight, and
\* isProcessing is true whenever one is in flight; so the store's result lists
\* and currentStep are written by at most one stage run at a time.
C24_OneHandlerInFlight ==
    /\ [][ (Step1Start \/ Step2Start \/ Step3Start \/ Step4Start)
            => (w_pc = "idle" /\ ~isProcessing) ]_vars
    /\ [](w_pc # "idle" => isProcessing)

\* C24 witness: processStep3 awaits the Fact Reconciler on the panel whose
\* process button has no other condition than isProcessing
C24_Witness ==
    /\ w_pc = "s3_call"
    /\ isProcessing
    /\ currentStep = DATA_EXTRACTION
    /\ w_current = 1

\* the handler that was in flight ends in this step
HandlerEnds == w_pc # "idle" /\ w_pc' = "idle"
\* the step a stage handler belongs to
StepOfStage(stage) ==
    IF stage = "s1" THEN NOTICE_ANALYSIS
    ELSE IF stage = "s2" THEN GUIDELINE_INDICATORS
    ELSE IF stage = "s3" THEN DATA_EXTRACTION ELSE FINAL_DECISION

\* C25: currentStep grows only in the step that ends a stage handler whose
\* stage call returned, and then by one, from the handler's own step; a
\* handler whose stage call returned does move on; a handler that ends in
\* failure leaves currentStep and the four result lists as they were and
\* leaves error set; a handler starts only with its required file present.
C25_ForwardOnlyOnSuccess ==
    /\ [][ currentStep' > currentStep
            => /\ HandlerEnds
               /\ w_outcome'.kind \in {"parsed", "returned"}
               /\ currentStep = StepOfStage(w_outcome'.stage)
               /\ currentStep' = currentStep + 1 ]_vars
    /\ [][ (HandlerEnds /\ w_outcome'.kind \in {"parsed", "returned"})
            => currentStep' = StepOfStage(w_outcome'.stage) + 1 ]_vars
    /\ [][ (HandlerEnds /\ w_outcome'.kind \notin {"parsed", "returned"})
            => /\ currentStep' = currentStep
               /\ UNCHANGED <<st_agendaItems, st_indicators, st_facts, st_decisions>>
               /\ error' # "null" ]_vars
    /\ [][ (w_pc = "idle" /\ w_pc' # "idle")
            => /\ w_pc' = "s1_text" => noticeFile # NoFile
               /\ w_pc' = "s2_text" => guidelineFile # NoFile
               /\ w_pc' = "s3_text" => FilesToProcess # <<>> ]_vars

\* C25 witness: after facts were stored and the user went back, a second run
\* of processStep3 failed; the step and the stored facts are as before
C25_Witness ==
    /\ w_outcome = [stage |-> "s3", kind |-> "rejected"]
    /\ currentStep = DATA_EXTRACTION
    /\ st_facts # <<>>
    /\ error = Step3Error
    /\ ~isProcessing

\* C26: isProcessing is true as long as a stage handler is in flight and false
\* once it has ended; when every awaited call settles, isProcessing is always
\* released; the end of processStep3 leaves progress 0 and no status message.
C26_ProcessingReleased ==
    /\ [](w_pc # "idle" <=> isProcessing)
    /\ (isProcessing ~> ~isProcessing)
    /\ [][ (w_pc \in {"s3_text", "s3_call"} /\ w_pc' = "idle")
            => (progress' = 0 /\ statusMessage' = <<>>) ]_vars

\* C26 witness: a run of processStep3 over two files, rejected after it had
\* reported progress, has released isProcessing, progress and the status message
C26_Witness ==
    /\ w_outcome = [stage |-> "s3", kind |-> "rejected"]
    /\ noticeFile # NoFile
    /\ evidenceFiles # <<>>
    /\ ~isProcessing
    /\ progress = 0
    /\ statusMessage = <<>>

====
